---- MODULE Spec2Model ----
(***************************************************************************)
(* Streaming query-processing pipeline of Akumuli (src/src/akumuli.cpp,    *)
(* namespace Akumuli::QP): a linear chain of operator nodes fed by a query *)
(* processor and ending in a caller-provided sink.                         *)
(*                                                                         *)
(* Levels of the call trace: 0 is the query processor (the producer's      *)
(* calls), 1..Len(chain) are the operator nodes, Len(chain)+1 is the sink. *)
(* The chain is synchronous and single-threaded, so one producer call is   *)
(* one atomic action that runs every nested call to completion.            *)
(*                                                                         *)
(* float64 values are modelled as exact rationals [n, d] (d > 0, reduced). *)
(***************************************************************************)
EXTENDS Integers, Sequences, FiniteSets, TLC

VARIABLES
    chain,      \* the operator nodes N1 -> ... -> Nk, each with its fields
    groupby,    \* ScanQueryProcessor::groupby_ (step_, first_hit_, bounds)
    room,       \* the sink: how many more puts it accepts (-1: unlimited)
    trace,      \* call trace of the run, in call order (pre-order)
    stopped,    \* the producer has called stop()
    clock,      \* timestamp of the last sample the cursor produced
    feed        \* what the storage cursor can produce (fixed per run)

vars == <<chain, groupby, room, trace, stopped, clock, feed>>

----------------------------------------------------------------------------
(* Bounds of the model. *)

\* producer calls (put / stop / set_error) in a run of the general chains
MaxOps == 3
\* producer calls in a run of a single filter or of the group-by driver alone
MaxStreamOps == 4
\* producer calls in a run of a single sliding-window node
MaxWindowOps == 4
\* producer calls in a run of a single reservoir
MaxReservoirOps == 4
\* producer calls in a run of a single SpaceSaver
MaxSpaceSaverOps == 3
\* producer calls in a run of a single anomaly detector
MaxAnomalyOps == 4
\* calls made on a MetadataQueryProcessor in a run
MaxMetadataOps == 3
\* length of the id list of a MetadataQueryProcessor
MaxIdListLen == 3

MaxCountOps == 3

----------------------------------------------------------------------------
(* float64 as exact rationals. *)

RECURSIVE Gcd(_, _)
Gcd(a, b) == IF b = 0 THEN a ELSE Gcd(b, a % b)

Abs(x) == IF x < 0 THEN -x ELSE x

\* n/d with d > 0, reduced
Rat(n, d) ==
    LET g == Gcd(Abs(n), d)
    IN  IF g = 0 THEN [n |-> 0, d |-> 1] ELSE [n |-> n \div g, d |-> d \div g]

RInt(k) == [n |-> k, d |-> 1]
RAdd(a, b) == Rat(a.n * b.d + b.n * a.d, a.d * b.d)
RSub(a, b) == Rat(a.n * b.d - b.n * a.d, a.d * b.d)
RMul(a, b) == Rat(a.n * b.n, a.d * b.d)
RDivNat(a, k) == Rat(a.n, a.d * k)
RLess(a, b) == a.n * b.d < b.n * a.d

----------------------------------------------------------------------------
(* Samples. payload.type is a bit set; it is modelled as the set of the    *)
(* flags that are on, so aku_PData::EMPTY (no bit) is the empty set.       *)

EMPTY == {}
AKU_PAYLOAD_FLOAT == {"PARAMID_BIT", "TIMESTAMP_BIT", "FLOAT_BIT"}
AKU_PAYLOAD_BLOB == {"PARAMID_BIT", "TIMESTAMP_BIT", "BLOB_BIT"}

\* static aku_Sample EMPTY_SAMPLE = {};  (zero-initialised)
EMPTY_SAMPLE == [paramid |-> 0, timestamp |-> 0, type |-> EMPTY, value |-> RInt(0)]

IsEmpty(s) == s.type = EMPTY

Sample(id, ts, type, v) == [paramid |-> id, timestamp |-> ts, type |-> type, value |-> v]

----------------------------------------------------------------------------
(* A method of a node is modelled by what it asks of its successor and by  *)
(* the fields it is left with. The chain is linear and a successor never   *)
(* calls back, so a method is a plan:                                      *)
(*   emit      the samples it puts into the successor, in order; it stops  *)
(*             at the first put that returns false                         *)
(*   onAccept  the node's fields when every put was accepted               *)
(*   onReject  onReject[k]: the node's fields when the k-th put was the    *)
(*             one rejected                                                *)
(*   ret       what the method returns when every put was accepted (it     *)
(*             returns false when one was rejected)                        *)
(*   err       the status it hands to set_error first ("" for none)        *)
(* An oracle orc resolves, for one producer call, what the C++ leaves open:*)
(*   orc.perm  iteration order of std::unordered_map (a sequence of ids)   *)
(*   orc.rnd   the value random_() returns                                 *)
(*   orc.med   which of the elements std::partial_sort leaves unordered    *)
(*             stands at the middle position                               *)
(*   orc.junk  the content of a field that is read uninitialised           *)
(*   orc.trap  whether an integer division by zero traps                   *)

Plan(emit, onAccept, onReject, ret, err) ==
    [emit |-> emit, onAccept |-> onAccept, onReject |-> onReject, ret |-> ret,
     err |-> err]

\* a method that puts nothing
Quiet(node, ret) == Plan(<<>>, node, <<>>, ret, "")

\* a method that hands one sample on and returns what the successor returned
Forward(node, s) == Plan(<<s>>, node, <<node>>, TRUE, "")

EmptyMap == [k \in {} |-> 0]

\* f with key k bound to v
MapPut(f, k, v) == [x \in DOMAIN f \cup {k} |-> IF x = k THEN v ELSE f[x]]

\* the keys of map f in the iteration order the oracle fixes
IterOrder(f, orc) == SelectSeq(orc.perm, LAMBDA k : k \in DOMAIN f)

Range(seq) == {seq[j] : j \in DOMAIN seq}

----------------------------------------------------------------------------
(* FilterByIdNode<Predicate> and the three predicates of the builder.      *)

FilterNode(mode, id, idset) ==
    [kind |-> "FilterById", mode |-> mode, id_ |-> id, idset |-> idset]

\* Fun / Matcher ::operator()
op_(node, id) ==
    CASE node.mode = "make_filter_by_id" -> id = node.id_
      [] node.mode = "make_filter_by_id_list" -> Cardinality(node.idset \cap {id}) > 0
      [] node.mode = "make_filter_out_by_id_list" -> Cardinality(node.idset \cap {id}) = 0

\* a slip that applies the predicate to the sentinel's paramid too
FilterByIdNode_put_noSentinel(node, s, orc) ==
    IF op_(node, s.paramid) THEN Forward(node, s) ELSE Quiet(node, TRUE)

FilterByIdNode_put(node, s, orc) ==
    IF IsEmpty(s) THEN Forward(node, s)
    ELSE IF op_(node, s.paramid) THEN Forward(node, s) ELSE Quiet(node, TRUE)

----------------------------------------------------------------------------
(* RandomSamplingNode.                                                     *)

\* trapped: the process was stopped inside this node's put by the integer
\* division by zero of the coin flip
RandomSamplingNode(buffer_size) ==
    [kind |-> "RandomSampler", buffer_size_ |-> buffer_size, samples_ |-> <<>>,
     trapped |-> FALSE]

\* the predicate of flush(): (timestamp, paramid) tuples compared with <
SampleLess(l, r) ==
    \/ l.timestamp < r.timestamp
    \/ l.timestamp = r.timestamp /\ l.paramid < r.paramid

\* x goes behind every element it is not less than: equal keys keep their order
RECURSIVE InsertStable(_, _)
InsertStable(sorted, x) ==
    IF sorted = <<>> THEN <<x>>
    ELSE IF SampleLess(x, sorted[Len(sorted)])
         THEN Append(InsertStable(SubSeq(sorted, 1, Len(sorted) - 1), x),
                     sorted[Len(sorted)])
         ELSE Append(sorted, x)

RECURSIVE StableSort(_)
StableSort(seq) ==
    IF seq = <<>> THEN <<>>
    ELSE InsertStable(StableSort(SubSeq(seq, 1, Len(seq) - 1)), seq[Len(seq)])

\* samples_ is sorted in place; it is cleared only when every put was accepted
RandomSamplingNode_flush(node) ==
    LET sorted == StableSort(node.samples_)
        kept == [node EXCEPT !.samples_ = sorted]
    IN  Plan(sorted, [node EXCEPT !.samples_ = <<>>],
             [k \in 1..Len(sorted) |-> kept], TRUE, "")

\* random_() % samples_.size(); with buffer_size_ = 0 the divisor is 0, which
\* is undefined: the division traps (orc.trap) or yields any index
CoinIndex(node, orc) ==
    IF Len(node.samples_) = 0 THEN orc.junk ELSE orc.rnd % Len(node.samples_)

RandomSamplingNode_put(node, s, orc) ==
    LET ix == CoinIndex(node, orc)
    IN  IF IsEmpty(s) THEN RandomSamplingNode_flush(node)
        ELSE IF Len(node.samples_) < node.buffer_size_
             THEN Quiet([node EXCEPT !.samples_ = Append(@, s)], TRUE)
             ELSE IF Len(node.samples_) = 0 /\ orc.trap
             THEN Quiet([node EXCEPT !.trapped = TRUE], TRUE)
             ELSE IF ix < node.buffer_size_
                  THEN Quiet([node EXCEPT !.samples_[ix + 1] = s], TRUE)
                  ELSE Quiet(node, TRUE)

----------------------------------------------------------------------------
(* SlidingWindow<State>, MovingAverageCounter, MovingMedianCounter.        *)

MovingAverage == [kind |-> "MovingAverage", counters_ |-> EmptyMap]
MovingMedian == [kind |-> "MovingMedian", counters_ |-> EmptyMap]

IsSlidingWindow(node) == node.kind \in {"MovingAverage", "MovingMedian"}

\* a default-constructed State
StateNew(kind) ==
    IF kind = "MovingAverage" THEN [acc |-> RInt(0), num |-> 0] ELSE [acc |-> <<>>]

State_reset(kind, st) ==
    IF kind = "MovingAverage" THEN [acc |-> RInt(0), num |-> 0] ELSE [acc |-> <<>>]

State_ready(kind, st) ==
    IF kind = "MovingAverage" THEN st.num # 0 ELSE st.acc # <<>>

\* add() reads payload.value.float64 whatever the payload type is
State_add(kind, st, s) ==
    IF kind = "MovingAverage"
    THEN [acc |-> RAdd(st.acc, s.value), num |-> st.num + 1]
    ELSE [acc |-> Append(st.acc, s.value)]

RatSorted(seq) == SortSeq(seq, RLess)

\* std::partial_sort(begin, middle, end) puts the size/2 smallest elements, in
\* order, before middle; the order of the others, of which *middle is the
\* first, is unspecified
MovingMedianCounter_value(st, orc) ==
    LET n == Len(st.acc)
        half == n \div 2
    IN  IF n < 2 THEN st.acc[1]
        ELSE RatSorted(st.acc)[half + 1 + (orc.med % (n - half))]

MovingAverageCounter_value(st) == RDivNat(st.acc, st.num)

State_value(kind, st, orc) ==
    IF kind = "MovingAverage" THEN MovingAverageCounter_value(st)
    ELSE MovingMedianCounter_value(st, orc)

\* the series whose state is ready, in iteration order
ReadySeries(node, orc) ==
    SelectSeq(IterOrder(node.counters_, orc),
              LAMBDA k : State_ready(node.kind, node.counters_[k]))

\* the sample average_samples builds for series k
Synthetic(node, k, ts, orc) ==
    Sample(k, ts, AKU_PAYLOAD_FLOAT, State_value(node.kind, node.counters_[k], orc))

\* the node with the states of the first j ready series reset
ResetFirst(node, ready, j) ==
    [node EXCEPT !.counters_ =
        [k \in DOMAIN @ |->
            IF \E x \in 1..j : x <= Len(ready) /\ ready[x] = k
            THEN State_reset(node.kind, @[k]) ELSE @[k]]]

\* the sentinel average_samples passes on
SlidingWindow_sentinel(ts) == EMPTY_SAMPLE

\* each ready state is reset before its sample is put, so a rejected sample's
\* series is reset too and the series behind it keep their state; the sentinel
\* goes last
SlidingWindow_average_samples(node, ts, orc) ==
    LET ready == ReadySeries(node, orc)
        synth == [j \in 1..Len(ready) |-> Synthetic(node, ready[j], ts, orc)]
    IN  Plan(synth \o <<SlidingWindow_sentinel(ts)>>,
             ResetFirst(node, ready, Len(ready)),
             [k \in 1..(Len(ready) + 1) |-> ResetFirst(node, ready, k)], TRUE, "")

\* counters_[sample.paramid] creates the state when the key is new
SlidingWindow_put(node, s, orc) ==
    LET st == IF s.paramid \in DOMAIN node.counters_ THEN node.counters_[s.paramid]
              ELSE StateNew(node.kind)
    IN  IF IsEmpty(s) THEN SlidingWindow_average_samples(node, s.timestamp, orc)
        ELSE Quiet([node EXCEPT !.counters_ =
                       MapPut(@, s.paramid, State_add(node.kind, st, s))], TRUE)

----------------------------------------------------------------------------
(* SpaceSaver<weighted>.                                                   *)

\* M(ceil(1.0/error)) for error = n/d > 0
Capacity(error) == (error.d + error.n - 1) \div error.n

SpaceSaver(weighted, error, portion) ==
    [kind |-> "SpaceSaver", weighted |-> weighted, counters_ |-> EmptyMap,
     N |-> RInt(0), M |-> Capacity(error), P |-> portion]

SS_PAYLOAD == {"PARAMID_BIT", "FLOAT_BIT"}

\* the order std::sort leaves for the comparator lhs.value > rhs.value; the
\* order of equal counts is that of the (arbitrary) iteration
RECURSIVE InsertDesc(_, _)
InsertDesc(sorted, x) ==
    IF sorted = <<>> THEN <<x>>
    ELSE IF RLess(sorted[Len(sorted)].value, x.value)
         THEN Append(InsertDesc(SubSeq(sorted, 1, Len(sorted) - 1), x),
                     sorted[Len(sorted)])
         ELSE Append(sorted, x)

RECURSIVE SortDesc(_)
SortDesc(seq) ==
    IF seq = <<>> THEN <<>>
    ELSE InsertDesc(SortDesc(SubSeq(seq, 1, Len(seq) - 1)), seq[Len(seq)])

\* a slip that leaves out the sort and emits in iteration order
SpaceSaver_count_unsorted(node, orc) ==
    LET support == RMul(node.N, node.P)
        order == IterOrder(node.counters_, orc)
        over == SelectSeq(order, LAMBDA k :
                    RLess(support, RSub(node.counters_[k].count, node.counters_[k].error)))
        samples == [j \in 1..Len(over) |->
                      Sample(over[j], orc.junk, SS_PAYLOAD, node.counters_[over[j]].count)]
    IN  Plan(samples, [node EXCEPT !.counters_ = EmptyMap],
             [k \in 1..Len(samples) |-> node], TRUE, "")

\* s.timestamp is never set in count(): it is read uninitialised downstream.
\* counters_ is cleared only when every put was accepted; N is left as it is
SpaceSaver_count(node, orc) ==
    LET support == RMul(node.N, node.P)
        order == IterOrder(node.counters_, orc)
        over == SelectSeq(order, LAMBDA k :
                    RLess(support, RSub(node.counters_[k].count, node.counters_[k].error)))
        samples == [j \in 1..Len(over) |->
                      Sample(over[j], orc.junk, SS_PAYLOAD, node.counters_[over[j]].count)]
    IN  Plan(SortDesc(samples), [node EXCEPT !.counters_ = EmptyMap],
             [k \in 1..Len(samples) |-> node], TRUE, "")

\* double -> size_t: truncation; undefined for a negative value
ToSizeT(r, orc) == IF r.n >= 0 THEN r.n \div r.d ELSE orc.junk

\* the scan for the smallest count, over order[j..]: `min` is a size_t that
\* starts at its maximum (isMax); every later comparison is against the
\* truncated count
RECURSIVE MinScan(_, _, _, _, _, _, _)
MinScan(order, counters, j, minIter, min, isMax, orc) ==
    IF j > Len(order) THEN [iter |-> minIter, min |-> min]
    ELSE LET c == counters[order[j]].count
         IN  IF isMax \/ RLess(c, RInt(min))
             THEN MinScan(order, counters, j + 1, order[j], ToSizeT(c, orc), FALSE, orc)
             ELSE MinScan(order, counters, j + 1, minIter, min, isMax, orc)

\* a slip that inserts into a full map without erasing an entry
SpaceSaver_put_noEvict(node, s, orc) ==
    LET id == s.paramid
        weight == IF node.weighted THEN s.value ELSE RInt(1)
        scan == MinScan(IterOrder(node.counters_, orc), node.counters_, 1, 0, 0, TRUE, orc)
        kept == node.counters_
        counters ==
            IF id \in DOMAIN node.counters_
            THEN [node.counters_ EXCEPT ![id].count = RAdd(@, weight)]
            ELSE IF Cardinality(DOMAIN node.counters_) = node.M
                 THEN MapPut(kept, id, [count |-> RAdd(weight, RInt(scan.min)),
                                        error |-> RInt(scan.min)])
                 ELSE MapPut(node.counters_, id, [count |-> weight, error |-> RInt(0)])
    IN  IF IsEmpty(s) THEN SpaceSaver_count(node, orc)
        ELSE IF node.weighted /\ "FLOAT_BIT" \notin s.type THEN Quiet(node, TRUE)
        ELSE Quiet([node EXCEPT !.counters_ = counters, !.N = RAdd(@, weight)], TRUE)

SpaceSaver_put(node, s, orc) ==
    LET id == s.paramid
        weight == IF node.weighted THEN s.value ELSE RInt(1)
        scan == MinScan(IterOrder(node.counters_, orc), node.counters_, 1, 0, 0, TRUE, orc)
        kept == [k \in DOMAIN node.counters_ \ {scan.iter} |-> node.counters_[k]]
        counters ==
            IF id \in DOMAIN node.counters_
            THEN [node.counters_ EXCEPT ![id].count = RAdd(@, weight)]
            ELSE IF Cardinality(DOMAIN node.counters_) = node.M
                 THEN MapPut(kept, id, [count |-> RAdd(weight, RInt(scan.min)),
                                        error |-> RInt(scan.min)])
                 ELSE MapPut(node.counters_, id, [count |-> weight, error |-> RInt(0)])
    IN  IF IsEmpty(s) THEN SpaceSaver_count(node, orc)
        ELSE IF node.weighted /\ "FLOAT_BIT" \notin s.type THEN Quiet(node, TRUE)
        ELSE Quiet([node EXCEPT !.counters_ = counters, !.N = RAdd(@, weight)], TRUE)

----------------------------------------------------------------------------
(* AnomalyDetector. The detector behind AnomalyDetectorIface is abstract:  *)
(* it sums each series' values over the current frame and reports a series *)
(* whose sum exceeds the threshold.                                        *)

AKU_EANOMALY_NEG_VAL == "AKU_EANOMALY_NEG_VAL"

AnomalyDetector(threshold) ==
    [kind |-> "AnomalyDetector",
     detector_ |-> [threshold |-> threshold, frame |-> EmptyMap, moves |-> 0]]

Detector_add(d, id, v) ==
    [d EXCEPT !.frame = MapPut(@, id, IF id \in DOMAIN @ THEN RAdd(@[id], v) ELSE v)]

Detector_is_anomaly_candidate(d, id) ==
    id \in DOMAIN d.frame /\ RLess(d.threshold, d.frame[id])

Detector_move_sliding_window(d) == [d EXCEPT !.frame = EmptyMap, !.moves = @ + 1]

\* a slip that adds the value before it looks at its sign
AnomalyDetector_put_addFirst(node, s, orc) ==
    LET moved == [node EXCEPT !.detector_ = Detector_move_sliding_window(@)]
        added == [node EXCEPT !.detector_ = Detector_add(@, s.paramid, s.value)]
    IN  IF IsEmpty(s) THEN Forward(moved, s)
        ELSE IF "FLOAT_BIT" \in s.type
        THEN IF RLess(s.value, RInt(0))
             THEN Plan(<<>>, added, <<>>, FALSE, AKU_EANOMALY_NEG_VAL)
             ELSE IF Detector_is_anomaly_candidate(added.detector_, s.paramid)
                  THEN Forward(added, [s EXCEPT !.type = @ \cup {"URGENT"}])
                  ELSE Quiet(added, TRUE)
        ELSE Quiet(node, TRUE)

\* a slip that asks the detector before the value is added
AnomalyDetector_put_askFirst(node, s, orc) ==
    LET moved == [node EXCEPT !.detector_ = Detector_move_sliding_window(@)]
        added == [node EXCEPT !.detector_ = Detector_add(@, s.paramid, s.value)]
    IN  IF IsEmpty(s) THEN Forward(moved, s)
        ELSE IF "FLOAT_BIT" \in s.type
        THEN IF RLess(s.value, RInt(0))
             THEN Plan(<<>>, node, <<>>, FALSE, AKU_EANOMALY_NEG_VAL)
             ELSE IF Detector_is_anomaly_candidate(node.detector_, s.paramid)
                  THEN Forward(added, [s EXCEPT !.type = @ \cup {"URGENT"}])
                  ELSE Quiet(added, TRUE)
        ELSE Quiet(node, TRUE)

AnomalyDetector_put(node, s, orc) ==
    LET moved == [node EXCEPT !.detector_ = Detector_move_sliding_window(@)]
        added == [node EXCEPT !.detector_ = Detector_add(@, s.paramid, s.value)]
    IN  IF IsEmpty(s) THEN Forward(moved, s)
        ELSE IF "FLOAT_BIT" \in s.type
        THEN IF RLess(s.value, RInt(0))
             THEN Plan(<<>>, node, <<>>, FALSE, AKU_EANOMALY_NEG_VAL)
             ELSE IF Detector_is_anomaly_candidate(added.detector_, s.paramid)
                  THEN Forward(added, [s EXCEPT !.type = @ \cup {"URGENT"}])
                  ELSE Quiet(added, TRUE)
        ELSE Quiet(node, TRUE)

----------------------------------------------------------------------------
(* Virtual dispatch and the calls along the chain.                         *)
(*   w = [chain, room, trace]. A call appends its trace entry when it      *)
(*   enters; the entry's ret is filled in when it returns.                 *)

\* Node::put of an operator node
Node_put(node, s, orc) ==
    CASE node.kind = "FilterById" -> FilterByIdNode_put(node, s, orc)
      [] node.kind = "RandomSampler" -> RandomSamplingNode_put(node, s, orc)
      [] IsSlidingWindow(node) -> SlidingWindow_put(node, s, orc)
      [] node.kind = "SpaceSaver" -> SpaceSaver_put(node, s, orc)
      [] node.kind = "AnomalyDetector" -> AnomalyDetector_put(node, s, orc)

\* a slip that makes the sliding window flush its states on complete
Node_complete_flush(node, orc) ==
    CASE node.kind = "RandomSampler" -> RandomSamplingNode_flush(node)
      [] node.kind = "SpaceSaver" -> SpaceSaver_count(node, orc)
      [] IsSlidingWindow(node) -> SlidingWindow_average_samples(node, 0, orc)
      [] OTHER -> Quiet(node, TRUE)

\* what Node::complete does before it calls next_->complete(): flush() in the
\* reservoir, count() in the SpaceSaver, nothing elsewhere; the result of the
\* flush is dropped
Node_complete(node, orc) ==
    CASE node.kind = "RandomSampler" -> RandomSamplingNode_flush(node)
      [] node.kind = "SpaceSaver" -> SpaceSaver_count(node, orc)
      [] OTHER -> Quiet(node, TRUE)

Enter(w, lvl, ev, s, status) ==
    [w EXCEPT !.trace = Append(@, [lvl |-> lvl, ev |-> ev, s |-> s,
                                   ret |-> TRUE, status |-> status])]

Leave(w, e, ret) == [w EXCEPT !.trace[e].ret = ret]

Unlimited == -1

\* the sink, the caller's node: it accepts `room` more puts and is full
\* (returns false) from then on; room = Unlimited never fills
SinkPut(w, s) ==
    [w |-> [w EXCEPT !.room = IF @ > 0 THEN @ - 1 ELSE @], ret |-> w.room # 0]

\* every node's set_error hands the status to its successor
RECURSIVE NodeSetError(_, _, _)
NodeSetError(w, i, status) ==
    LET w1 == Enter(w, i, "set_error", EMPTY_SAMPLE, status)
    IN  IF i > Len(w.chain) THEN w1 ELSE NodeSetError(w1, i + 1, status)

\* the fields a node is left with by a plan of which k puts were made
After(plan, ok, k) == IF ok THEN plan.onAccept ELSE plan.onReject[k]

\* a slip that drops the successor's false
Result_swallow(plan, ok) == plan.ret

\* what the method returns: false as soon as a put into the successor
\* returned false
Result(plan, ok) == IF ok THEN plan.ret ELSE FALSE

RECURSIVE NodePut(_, _, _, _), PutAll(_, _, _, _)

\* r is the result of the first put of seq
PutAllRest(r, i, seq, orc) ==
    IF ~r.ret THEN [w |-> r.w, ret |-> FALSE, k |-> 1]
    ELSE [PutAll(r.w, i, Tail(seq), orc) EXCEPT !.k = @ + 1]

\* puts the samples of seq in order into node i and stops at the first false;
\* k is the number of put calls made
PutAll(w, i, seq, orc) ==
    IF seq = <<>> THEN [w |-> w, ret |-> TRUE, k |-> 0]
    ELSE PutAllRest(NodePut(w, i, Head(seq), orc), i, seq, orc)

\* the call whose trace entry is e returns ret
Return(w, e, ret) == [w |-> Leave(w, e, ret), ret |-> ret]

\* r is the result of the puts the plan asked for
NodePutDone(plan, r, i, e) ==
    Return([r.w EXCEPT !.chain[i] = After(plan, r.ret, r.k)], e, Result(plan, r.ret))

\* node i runs the plan of its put; e is the call's trace entry
NodePutRun(plan, w, i, e, orc) ==
    NodePutDone(plan,
                PutAll(IF plan.err = "" THEN w ELSE NodeSetError(w, i + 1, plan.err),
                       i + 1, plan.emit, orc),
                i, e)

SinkPutDone(r, e) == Return(r.w, e, r.ret)

NodePut(w, i, s, orc) ==
    IF i > Len(w.chain)
    THEN SinkPutDone(SinkPut(Enter(w, i, "put", s, ""), s), Len(w.trace) + 1)
    ELSE NodePutRun(Node_put(w.chain[i], s, orc), Enter(w, i, "put", s, ""), i,
                    Len(w.trace) + 1, orc)

RECURSIVE NodeComplete(_, _, _)

\* a slip that gives up when the final flush was rejected
NodeCompleteDone_quit(plan, r, i, orc) ==
    IF r.ret THEN NodeComplete([r.w EXCEPT !.chain[i] = plan.onAccept], i + 1, orc)
    ELSE [r.w EXCEPT !.chain[i] = plan.onReject[r.k]]

\* r is the result of the flush: next_->complete() follows in every case
NodeCompleteDone(plan, r, i, orc) ==
    NodeComplete([r.w EXCEPT !.chain[i] = After(plan, r.ret, r.k)], i + 1, orc)

\* a slip that calls next_->complete() before the flush
NodeCompleteRun_late(plan, w, i, orc) ==
    [PutAll(NodeComplete(w, i + 1, orc), i + 1, plan.emit, orc).w
        EXCEPT !.chain[i] = plan.onAccept]

\* the flush comes first
NodeCompleteRun(plan, w, i, orc) ==
    NodeCompleteDone(plan, PutAll(w, i + 1, plan.emit, orc), i, orc)

\* complete(): the node's own flush, then next_->complete()
NodeComplete(w, i, orc) ==
    IF i > Len(w.chain) THEN Enter(w, i, "complete", EMPTY_SAMPLE, "")
    ELSE NodeCompleteRun(Node_complete(w.chain[i], orc),
                         Enter(w, i, "complete", EMPTY_SAMPLE, ""), i, orc)

----------------------------------------------------------------------------
(* GroupByStatement.                                                       *)

AKU_MIN_TIMESTAMP == 0

GroupByStatement(step) ==
    [step_ |-> step, first_hit_ |-> TRUE,
     lowerbound_ |-> AKU_MIN_TIMESTAMP, upperbound_ |-> AKU_MIN_TIMESTAMP]

\* first_hit_: the bounds are aligned to the bucket of the first timestamp
GroupBy_align(gb, ts) ==
    IF gb.first_hit_
    THEN [gb EXCEPT !.first_hit_ = FALSE,
                    !.lowerbound_ = (ts \div gb.step_) * gb.step_,
                    !.upperbound_ = (ts \div gb.step_) * gb.step_ + gb.step_]
    ELSE gb

\* a slip that leaves the bounds where they are after a boundary
GroupBy_shift_stuck(gb, d) == gb

\* lowerbound_ += step_; upperbound_ += step_  (d = 1), or -= (d = -1)
GroupBy_shift(gb, d) ==
    [gb EXCEPT !.lowerbound_ = @ + d * gb.step_, !.upperbound_ = @ + d * gb.step_]

\* the plan of put(sample, next): the boundary sentinel, when the timestamp
\* lies outside the bounds, then the sample; the bounds move only when the
\* sentinel was accepted
GroupByStatement_put(gb, s) ==
    LET ts == s.timestamp
        g1 == GroupBy_align(gb, ts)
        d == IF ts >= g1.upperbound_ THEN 1 ELSE IF ts < g1.lowerbound_ THEN -1 ELSE 0
        empty == [EMPTY_SAMPLE EXCEPT !.timestamp = g1.upperbound_]
    IN  IF gb.step_ = 0 THEN Forward(gb, s)
        ELSE IF d = 0 THEN Forward(g1, s)
        ELSE Plan(<<empty, s>>, GroupBy_shift(g1, d), <<g1, GroupBy_shift(g1, d)>>,
                  TRUE, "")

----------------------------------------------------------------------------
(* ScanQueryProcessor and its producer, the storage cursor.                *)

World == [chain |-> chain, room |-> room, trace |-> trace]

\* the producer's calls so far
Calls == {j \in DOMAIN trace : trace[j].lvl = 0}
Ops == Cardinality(Calls)

HasKind(kinds) == \E i \in DOMAIN chain : chain[i].kind \in kinds

Perms(S) ==
    {p \in [1..Cardinality(S) -> S] : \A a, b \in DOMAIN p : a # b => p[a] # p[b]}

AscendingIds == CHOOSE p \in Perms(feed.ids) : \A a, b \in DOMAIN p : a < b => p[a] < p[b]

\* two contents an uninitialised field may have
Junk == {0, 9}

\* what one producer call may meet; a choice is enumerated only for a chain
\* that reads it
Oracles ==
    [perm : IF HasKind({"MovingAverage", "MovingMedian", "SpaceSaver"})
            THEN Perms(feed.ids) ELSE {AscendingIds},
     rnd : IF HasKind({"RandomSampler"}) THEN {0, 1} ELSE {0},
     med : IF HasKind({"MovingMedian"}) THEN 0..(feed.maxOps - 1) ELSE {0},
     junk : IF HasKind({"SpaceSaver"}) THEN Junk ELSE {0},
     trap : IF \E i \in DOMAIN chain :
                   chain[i].kind = "RandomSampler" /\ chain[i].buffer_size_ = 0
            THEN BOOLEAN ELSE {FALSE}]

\* the cursor scans in one direction: timestamps never go back (forward scan)
\* nor forth (backward scan)
NextTimestamps(gaps) ==
    IF feed.backward THEN {clock - g : g \in {x \in gaps : x <= clock}}
    ELSE {clock + g : g \in gaps}

DataSamples ==
    {Sample(id, ts, AKU_PAYLOAD_FLOAT, v) :
        id \in feed.ids, ts \in NextTimestamps(feed.gaps), v \in feed.vals}
    \cup {Sample(id, ts, AKU_PAYLOAD_BLOB, v) :
        id \in feed.ids, ts \in NextTimestamps(feed.gaps), v \in feed.blobBits}

\* the cursor sends sentinels itself only when bucketing is not delegated to
\* the group-by statement
Sentinels ==
    IF groupby.step_ # 0 THEN {}
    ELSE {[EMPTY_SAMPLE EXCEPT !.timestamp = ts] : ts \in NextTimestamps(feed.sentinelGaps)}

\* r is the result of the puts the group-by statement asked for
ScanPutDone(plan, r, e) ==
    /\ chain' = r.w.chain
    /\ room' = r.w.room
    /\ trace' = Leave(r.w, e, Result(plan, r.ret)).trace
    /\ groupby' = After(plan, r.ret, r.k)

ScanPutRun(plan, s, orc) ==
    ScanPutDone(plan, PutAll(Enter(World, 0, "put", s, ""), 1, plan.emit, orc),
                Len(trace) + 1)

\* put delegates through the group-by statement into the root node
ScanQueryProcessor_put(s, orc) == ScanPutRun(GroupByStatement_put(groupby, s), s, orc)

Commit(w) ==
    /\ chain' = w.chain
    /\ room' = w.room
    /\ trace' = w.trace

ScanQueryProcessor_stop(orc) ==
    Commit(NodeComplete(Enter(World, 0, "complete", EMPTY_SAMPLE, ""), 1, orc))

ScanQueryProcessor_set_error(status) ==
    Commit(NodeSetError(Enter(World, 0, "set_error", EMPTY_SAMPLE, status), 1, status))

\* no call is made once the process was stopped by a trap
Alive == \A i \in DOMAIN chain : chain[i].kind = "RandomSampler" => ~chain[i].trapped

\* the producer follows the protocol: a false from put means "stop producing"
NoPutRejected == \A j \in Calls : trace[j].ev = "put" => trace[j].ret

Put ==
    /\ Alive
    /\ ~stopped
    /\ NoPutRejected
    /\ Ops < feed.maxOps
    /\ \E s \in DataSamples \cup Sentinels : \E orc \in Oracles :
          /\ ScanQueryProcessor_put(s, orc)
          /\ clock' = s.timestamp
    /\ UNCHANGED <<stopped, feed>>

\* the producer ends the stream, once
Stop ==
    /\ Alive
    /\ ~stopped
    /\ \E orc \in Oracles : ScanQueryProcessor_stop(orc)
    /\ stopped' = TRUE
    /\ UNCHANGED <<groupby, clock, feed>>

AKU_EIO == "AKU_EIO"

\* a producer-side fault, reported once
SetError ==
    /\ Alive
    /\ ~stopped
    /\ Ops < feed.maxOps
    /\ \A j \in Calls : trace[j].ev # "set_error"
    /\ ScanQueryProcessor_set_error(AKU_EIO)
    /\ UNCHANGED <<groupby, stopped, clock, feed>>

Next == Put \/ Stop \/ SetError

\* a run: what the cursor holds (with the query's group-by step), the chain
\* the query built, and the sink's room
InitWith(Feeds, Chains, Rooms) ==
    /\ feed \in Feeds
    /\ chain \in Chains
    /\ groupby = GroupByStatement(feed.step)
    /\ room \in Rooms
    /\ trace = <<>>
    /\ stopped = FALSE
    /\ clock = feed.start

----------------------------------------------------------------------------
(* Configurations.                                                         *)

\* the bucket width of the group-by statement, when it buckets
BucketWidth == 2

Rooms == {0, 1, Unlimited}

FilterNodes ==
    {FilterNode("make_filter_by_id", 1, {}),
     FilterNode("make_filter_by_id_list", 0, {1}),
     FilterNode("make_filter_out_by_id_list", 0, {1})}

\* one node of every operator the builder makes
Nodes ==
    {FilterNode("make_filter_by_id_list", 0, {1}),
     RandomSamplingNode(2),
     MovingAverage,
     MovingMedian,
     SpaceSaver(FALSE, Rat(1, 2), RInt(0)),
     AnomalyDetector(RInt(0))}

\* every chain of at most two operators
Chains == {<<>>} \cup {<<a>> : a \in Nodes} \cup {<<a, b>> : a \in Nodes, b \in Nodes}

\* a query without group-by: the cursor marks the buckets itself
FeedFlat ==
    [ids |-> {1, 2}, step |-> 0, gaps |-> {0}, sentinelGaps |-> {BucketWidth},
     vals |-> {RInt(1)}, blobBits |-> {}, maxOps |-> MaxOps, backward |-> FALSE,
     start |-> 0]

\* a query with group-by: a sample lies in the bucket of the one before it or
\* in the next one
FeedBucketed == [FeedFlat EXCEPT !.step = BucketWidth, !.gaps = {0, BucketWidth}]

Init == InitWith({FeedFlat, FeedBucketed}, Chains, Rooms)

Spec == Init /\ [][Next]_vars

----------------------------------------------------------------------------
(* Reading the call trace.                                                 *)

SinkLevel == Len(chain) + 1

\* the first entry behind call e that is not nested in it
SpanEnd(e) ==
    LET behind == {j \in (e + 1)..Len(trace) : trace[j].lvl <= trace[e].lvl}
    IN  IF behind = {} THEN Len(trace) + 1
        ELSE CHOOSE j \in behind : \A x \in behind : j <= x

\* every call made while call e ran
Nested(e) == (e + 1)..(SpanEnd(e) - 1)

\* the calls that call e made itself, on its successor
Children(e) == {j \in Nested(e) : trace[j].lvl = trace[e].lvl + 1}

IsPut(j) == trace[j].ev = "put"
IsComplete(j) == trace[j].ev = "complete"

AtLevel(lvl) == {j \in DOMAIN trace : trace[j].lvl = lvl}

\* the entries of set S, in call order
RECURSIVE InOrder(_)
InOrder(S) ==
    IF S = {} THEN <<>>
    ELSE LET m == CHOOSE j \in S : \A x \in S : x <= j
         IN  Append(InOrder(S \ {m}), m)

\* the samples put into level lvl, in call order
PutInto(lvl) ==
    LET idx == InOrder({j \in AtLevel(lvl) : IsPut(j)})
    IN  [n \in DOMAIN idx |-> trace[idx[n]].s]

----------------------------------------------------------------------------
(* C1. Whenever a put that a node (or the group-by statement) makes on its *)
(* successor while it handles one put returns false, its own put returns   *)
(* false; so a false from the sink reaches the producer.                   *)

C1_FalseReachesCaller ==
    \A e \in DOMAIN trace :
        IsPut(e) =>
            \A j \in Children(e) : (IsPut(j) /\ ~trace[j].ret) => ~trace[e].ret

\* a sink behind two operators returned false and the producer's put did too
C1_Witness ==
    /\ Len(chain) = 2
    /\ \E e \in AtLevel(0) :
          /\ IsPut(e)
          /\ ~trace[e].ret
          /\ \E j \in Nested(e) : trace[j].lvl = SinkLevel /\ IsPut(j) /\ ~trace[j].ret

(* C2. The sink sees at most one complete, and exactly one once the        *)
(* producer has called stop, whatever the operators hold and whether or    *)
(* not their final flush was accepted.                                     *)

C2_OneComplete ==
    LET atSink == Cardinality({j \in AtLevel(SinkLevel) : IsComplete(j)})
        byProducer == Cardinality({j \in AtLevel(0) : IsComplete(j)})
    IN  /\ atSink <= 1
        /\ byProducer > 0 => atSink = 1
        /\ stopped <=> byProducer > 0

\* the producer stopped, the final flush was rejected by the sink, and the
\* sink has its complete
C2_Witness ==
    \E e \in AtLevel(0) :
        /\ IsComplete(e)
        /\ \E j \in Nested(e) : trace[j].lvl = SinkLevel /\ IsPut(j) /\ ~trace[j].ret
        /\ \E j \in Nested(e) : trace[j].lvl = SinkLevel /\ IsComplete(j)

(* C3. Once the sink has received complete no sample is put into it: what  *)
(* a reservoir or SpaceSaver emits on complete reaches the sink before the *)
(* sink's complete.                                                        *)

C3_NoPutAfterComplete ==
    \A j, k \in AtLevel(SinkLevel) : (IsComplete(j) /\ IsPut(k)) => k < j

\* a sample emitted because of complete reached the sink, then the complete
C3_Witness ==
    \E e \in AtLevel(0) :
        /\ IsComplete(e)
        /\ \E j, k \in Nested(e) :
              /\ trace[j].lvl = SinkLevel /\ IsPut(j) /\ trace[j].ret
              /\ trace[k].lvl = SinkLevel /\ IsComplete(k)
              /\ j < k

----------------------------------------------------------------------------
(* A filter alone in front of the sink.                                    *)

FeedFilterFlat == [FeedFlat EXCEPT !.maxOps = MaxStreamOps]
FeedFilterBucketed == [FeedBucketed EXCEPT !.maxOps = MaxStreamOps]

InitFilter ==
    InitWith({FeedFilterFlat, FeedFilterBucketed}, {<<f>> : f \in FilterNodes}, Rooms)

SpecFilter == InitFilter /\ [][Next]_vars

\* the predicate a filter was built for
FilterHolds(node, id) ==
    CASE node.mode = "make_filter_by_id" -> id = node.id_
      [] node.mode = "make_filter_by_id_list" -> id \in node.idset
      [] node.mode = "make_filter_out_by_id_list" -> id \notin node.idset

Passes(node, s) == IsEmpty(s) \/ FilterHolds(node, s.paramid)

(* C4. A filter forwards a data sample iff the predicate holds for its     *)
(* paramid and drops it, returning true, otherwise; it forwards every      *)
(* empty sentinel; what it forwards is unmodified and in arrival order, so *)
(* its output is the subsequence of its input that passes.                 *)

C4_FilterSubsequence ==
    /\ \A e \in AtLevel(1) :
          IsPut(e) =>
            LET out == {j \in Children(e) : IsPut(j)}
            IN  IF Passes(chain[1], trace[e].s)
                THEN \E j \in out : /\ out = {j}
                                    /\ trace[j].s = trace[e].s
                                    /\ trace[j].ret = trace[e].ret
                ELSE out = {} /\ trace[e].ret
    /\ PutInto(2) = SelectSeq(PutInto(1), LAMBDA s : Passes(chain[1], s))

\* an include-set filter has dropped a sample, forwarded a sample and
\* forwarded a sentinel, whose paramid is not in the set
C4_Witness ==
    /\ chain[1].mode = "make_filter_by_id_list"
    /\ \E a, b, c \in AtLevel(1) :
          /\ IsPut(a) /\ ~IsEmpty(trace[a].s) /\ Children(a) = {}
          /\ IsPut(b) /\ ~IsEmpty(trace[b].s) /\ Children(b) # {}
          /\ IsPut(c) /\ IsEmpty(trace[c].s) /\ Children(c) # {}

----------------------------------------------------------------------------
(* The group-by statement alone: the query processor puts straight into    *)
(* the sink. The cursor scans forward from 0 or backward from BackStart,   *)
(* and a sample may lie several buckets away from the one before it.       *)

BackStart == 4 * BucketWidth + 1

FeedForward ==
    [FeedFlat EXCEPT !.ids = {1}, !.step = BucketWidth,
                     !.gaps = {0, 1, BucketWidth, 2 * BucketWidth + 1},
                     !.maxOps = MaxStreamOps]

FeedBackward == [FeedForward EXCEPT !.backward = TRUE, !.start = BackStart]

InitGroupBy == InitWith({FeedForward, FeedBackward}, {<<>>}, Rooms \cup {2})

SpecGroupBy == InitGroupBy /\ [][Next]_vars

LastCall == CHOOSE e \in Calls : \A x \in Calls : x <= e

\* the boundaries between the bucket of timestamp a and that of timestamp b
Boundaries(a, b, width) == {x \in (a + 1)..b : x % width = 0}

(* C5. Group-by with bucket width > 0 on a forward stream: for a sample    *)
(* with s.ts >= upper the statement emits one sentinel per boundary        *)
(* crossed and moves the bounds each time, until s.ts < upper, and only    *)
(* then forwards s: after every forwarded data sample                      *)
(* lower <= s.ts < upper, for gaps of any size.                            *)

C5_SampleInsideBucket ==
    (groupby.step_ > 0 /\ ~feed.backward /\ Calls # {}) =>
        LET e == LastCall
            s == trace[e].s
            first == trace[CHOOSE c \in Calls : \A x \in Calls : c <= x].s
            sentinels == {x.timestamp : x \in {y \in Range(PutInto(1)) : IsEmpty(y)}}
        IN  (IsPut(e) /\ \E j \in Children(e) : trace[j].s = s) =>
               /\ groupby.lowerbound_ <= s.timestamp
               /\ s.timestamp < groupby.upperbound_
               /\ sentinels = Boundaries(first.timestamp, s.timestamp, groupby.step_)

(* C6. Group-by with bucket width > 0 on a monotonic stream: every         *)
(* sentinel's timestamp t and every data sample s forwarded after it       *)
(* satisfy t <= s.ts (forward) or t >= s.ts (backward), and two successive *)
(* sentinels lie exactly one bucket width apart.                           *)

C6_SentinelsOrdered ==
    groupby.step_ > 0 =>
        LET out == PutInto(1)
            empties == {n \in DOMAIN out : IsEmpty(out[n])}
        IN  /\ \A a \in empties : \A b \in DOMAIN out \ empties :
                  a < b => IF feed.backward
                           THEN out[a].timestamp >= out[b].timestamp
                           ELSE out[a].timestamp <= out[b].timestamp
            /\ \A a, b \in empties :
                  (a < b /\ \A x \in empties : ~(a < x /\ x < b)) =>
                      out[b].timestamp - out[a].timestamp
                          = IF feed.backward THEN -groupby.step_ ELSE groupby.step_

\* a backward scan has crossed two boundaries and forwarded a sample behind
\* both sentinels
C6_Witness ==
    /\ feed.backward
    /\ \E a, b, c \in DOMAIN PutInto(1) :
          /\ a < b /\ b < c
          /\ IsEmpty(PutInto(1)[a]) /\ IsEmpty(PutInto(1)[b])
          /\ ~IsEmpty(PutInto(1)[c])

----------------------------------------------------------------------------
(* A sliding window alone in front of the sink. The cursor sends float and *)
(* blob samples of two series and the bucket sentinels. A blob's value     *)
(* field holds a pointer and a length; BlobBits is what these bytes give   *)
(* when they are read as a double.                                         *)

BlobBits == RInt(7)

FeedWindow ==
    [FeedFlat EXCEPT !.vals = {RInt(1), RInt(3)}, !.blobBits = {BlobBits},
                     !.maxOps = MaxWindowOps]

InitWindow ==
    InitWith({FeedWindow}, {<<MovingAverage>>, <<MovingMedian>>}, {1, Unlimited})

SpecWindow == InitWindow /\ [][Next]_vars

\* the sentinels put into the window that it flushed with every put accepted
Flushes == {e \in AtLevel(1) : IsPut(e) /\ IsEmpty(trace[e].s) /\ trace[e].ret}

\* the float samples of the bucket that sentinel e closes
Bucket(e) ==
    LET before == {j \in AtLevel(1) : j < e /\ IsPut(j) /\ IsEmpty(trace[j].s)}
    IN  {j \in AtLevel(1) :
            /\ j < e /\ \A b \in before : b < j
            /\ IsPut(j) /\ "FLOAT_BIT" \in trace[j].s.type}

BucketOf(e, id) == {j \in Bucket(e) : trace[j].s.paramid = id}

\* the values of the samples S, in arrival order
Values(S) == LET idx == InOrder(S) IN [n \in DOMAIN idx |-> trace[idx[n]].s.value]

\* the synthetic samples the window put into its successor for sentinel e
Synthetics(e) == {j \in Children(e) : IsPut(j) /\ ~IsEmpty(trace[j].s)}

(* C7. On an empty sentinel with timestamp t a sliding window emits, for   *)
(* each series with at least one data sample since the previous sentinel,  *)
(* exactly one synthetic float sample with that paramid and timestamp t,   *)
(* emits nothing for a series without data, and forwards the sentinel only *)
(* after all synthetic samples. A series has data when it has a sample     *)
(* with a value: a blob is to be ignored by the window.                    *)

C7_OnePerSeries ==
    \A e \in Flushes :
        LET series == {trace[j].s.paramid : j \in Bucket(e)}
            out == InOrder({j \in Children(e) : IsPut(j)})
        IN  /\ Len(out) = Cardinality(series) + 1
            /\ IsEmpty(trace[out[Len(out)]].s)
            /\ \A id \in series :
                  Cardinality({j \in Synthetics(e) : trace[j].s.paramid = id}) = 1
            /\ \A j \in Synthetics(e) :
                  /\ trace[j].s.paramid \in series
                  /\ trace[j].s.timestamp = trace[e].s.timestamp
                  /\ trace[j].s.type = AKU_PAYLOAD_FLOAT

(* C8. The empty sentinel a sliding window forwards is the one it          *)
(* received: it carries the same timestamp.                                *)

C8_SentinelKeepsTimestamp ==
    \A e \in AtLevel(1) :
        (IsPut(e) /\ IsEmpty(trace[e].s)) =>
            \A j \in Children(e) :
                (IsPut(j) /\ IsEmpty(trace[j].s)) =>
                    trace[j].s.timestamp = trace[e].s.timestamp

RECURSIVE RSum(_)
RSum(seq) ==
    IF seq = <<>> THEN RInt(0)
    ELSE RAdd(RSum(SubSeq(seq, 1, Len(seq) - 1)), seq[Len(seq)])

Mean(seq) == RDivNat(RSum(seq), Len(seq))

(* C9. Moving average: the value emitted for a series at a sentinel is the *)
(* arithmetic mean of exactly that series' data samples since the previous *)
(* sentinel; nothing of an earlier bucket or of another series             *)
(* contributes.                                                            *)

C9_MeanOfBucket ==
    chain[1].kind = "MovingAverage" =>
        \A e \in Flushes : \A j \in Synthetics(e) :
            BucketOf(e, trace[j].s.paramid) # {} =>
                trace[j].s.value = Mean(Values(BucketOf(e, trace[j].s.paramid)))

----------------------------------------------------------------------------
(* A moving median alone in front of the sink, fed the float samples of    *)
(* one series with three different values.                                 *)

FeedMedian ==
    [FeedFlat EXCEPT !.ids = {1}, !.vals = {RInt(1), RInt(2), RInt(3)},
                     !.maxOps = MaxWindowOps]

InitMedian == InitWith({FeedMedian}, {<<MovingMedian>>}, {1, Unlimited})

SpecMedian == InitMedian /\ [][Next]_vars

(* C10. Moving median: for a bucket with n >= 1 values of a series, in any *)
(* arrival order, the value emitted at the sentinel is the element at      *)
(* index n div 2 (from 0) of those values sorted ascending.                *)

C10_MedianOfBucket ==
    chain[1].kind = "MovingMedian" =>
        \A e \in Flushes : \A j \in Synthetics(e) :
            LET vals == Values(BucketOf(e, trace[j].s.paramid))
            IN  vals # <<>> =>
                    trace[j].s.value = RatSorted(vals)[Len(vals) \div 2 + 1]

----------------------------------------------------------------------------
(* A reservoir alone in front of the sink, of every size from 0 (the       *)
(* builder takes any uint32_t) to 2. The cursor sends samples of two       *)
(* series, in any order within one timestamp, and the bucket sentinels.    *)

FeedReservoir == [FeedFlat EXCEPT !.gaps = {0, 1}, !.maxOps = MaxReservoirOps]

InitReservoir ==
    InitWith({FeedReservoir}, {<<RandomSamplingNode(k)>> : k \in {0, 1, 2}},
             {1, Unlimited})

SpecReservoir == InitReservoir /\ [][Next]_vars

Min(a, b) == IF a < b THEN a ELSE b

\* the calls that make node 1 flush: a sentinel or complete
Flushing == {e \in AtLevel(1) : IsComplete(e) \/ (IsPut(e) /\ IsEmpty(trace[e].s))}

\* the data samples put into node 1 since the flush before call e
Since(e) ==
    {j \in AtLevel(1) :
        /\ j < e /\ \A b \in Flushing : b < e => b < j
        /\ IsPut(j) /\ ~IsEmpty(trace[j].s)}

\* the samples node 1 put into its successor during call e
Emitted(e) == {j \in Children(e) : IsPut(j)}

(* C11. A reservoir of capacity k, 0 included: every put of a data sample  *)
(* returns; the buffer never holds more than k samples; after N data       *)
(* samples and a flush (sentinel or complete) into a successor that        *)
(* accepts everything, exactly min(N, k) samples are emitted, each of them *)
(* one of the N inputs.                                                    *)

C11_ReservoirSize ==
    /\ ~chain[1].trapped
    /\ Len(chain[1].samples_) <= chain[1].buffer_size_
    /\ room = Unlimited =>
          \A e \in Flushing :
              /\ Cardinality(Emitted(e))
                    = Min(Cardinality(Since(e)), chain[1].buffer_size_)
              /\ \A j \in Emitted(e) : \E i \in Since(e) : trace[j].s = trace[i].s

(* C12. Reservoir sampling is uniform: after N > k data samples each input *)
(* is in the output with probability k/N < 1, so every input, the last one *)
(* included, can be absent from the output in some run: when a new sample  *)
(* meets a full buffer, the coin flip has an outcome that does not store   *)
(* it.                                                                     *)

C12_LastCanBeAbsent ==
    (chain[1].buffer_size_ > 0 /\ Len(chain[1].samples_) = chain[1].buffer_size_) =>
        \A s \in DataSamples \ Range(chain[1].samples_) :
            \E orc \in Oracles :
                s \notin Range(RandomSamplingNode_put(chain[1], s, orc).onAccept.samples_)

\* how often sample x is among the samples of the calls S
Times(S, x) == Cardinality({j \in S : trace[j].s = x})

(* C19. Reservoir flush (sentinel or complete): the buffered samples are   *)
(* emitted in nondecreasing order of (timestamp, paramid), the sentinel is *)
(* not forwarded, and after the flush the buffer is empty, so no sample is *)
(* emitted by two different flushes.                                       *)

C19_FlushOnce ==
    /\ \A e \in Flushing :
          /\ \A a, b \in Emitted(e) : a < b => ~SampleLess(trace[b].s, trace[a].s)
          /\ \A j \in Emitted(e) : ~IsEmpty(trace[j].s)
          /\ (\A x \in AtLevel(1) : x <= e) => chain[1].samples_ = <<>>
    /\ \A i \in AtLevel(1) :
          (IsPut(i) /\ ~IsEmpty(trace[i].s)) =>
              Times(UNION {Emitted(e) : e \in Flushing}, trace[i].s)
                  <= Times({j \in AtLevel(1) : IsPut(j)}, trace[i].s)

----------------------------------------------------------------------------
(* A SpaceSaver alone in front of the sink: frequent-items (unweighted)    *)
(* and heavy-hitters (weighted), both with error 1/2, so M = 2, and        *)
(* portion 1/2. The cursor sends samples of three series with values 1/2   *)
(* and 1, and the bucket sentinels.                                        *)

SpaceSaverError == Rat(1, 2)
SpaceSaverPortion == Rat(1, 2)

FeedSpaceSaver ==
    [FeedFlat EXCEPT !.ids = {1, 2, 3}, !.vals = {Rat(1, 2), RInt(1)},
                     !.maxOps = MaxSpaceSaverOps]

InitSpaceSaver ==
    InitWith({FeedSpaceSaver},
             {<<SpaceSaver(weighted, SpaceSaverError, SpaceSaverPortion)>> :
                 weighted \in BOOLEAN},
             {1, Unlimited})

SpecSpaceSaver == InitSpaceSaver /\ [][Next]_vars

RLessEq(a, b) == ~RLess(b, a)

\* the weight of a data sample: 1 for frequent-items, its value for
\* heavy-hitters
Weight(s) == IF chain[1].weighted THEN s.value ELSE RInt(1)

RECURSIVE TotalWeight(_)
TotalWeight(S) ==
    IF S = {} THEN RInt(0)
    ELSE LET j == CHOOSE x \in S : TRUE
         IN  RAdd(Weight(trace[j].s), TotalWeight(S \ {j}))

\* the true weight of series id in the bucket that call e flushes
TrueWeight(e, id) == TotalWeight({j \in Since(e) : trace[j].s.paramid = id})

(* C13. Space-Saving guarantee, for every bucket with total weight N (the  *)
(* data samples between two flushes), unweighted and weighted, the first   *)
(* bucket and the later ones: every series whose true weight in the bucket *)
(* is at least (portion + error) * N is reported at the flush, and every   *)
(* reported count lies between the true weight and the true weight plus    *)
(* error * N.                                                              *)

C13_SpaceSavingGuarantee ==
    room = Unlimited =>
        \A e \in Flushing :
            LET N == TotalWeight(Since(e))
                heavy == RMul(RAdd(SpaceSaverPortion, SpaceSaverError), N)
            IN  /\ \A i \in Since(e) :
                      RLessEq(heavy, TrueWeight(e, trace[i].s.paramid)) =>
                          \E j \in Emitted(e) : trace[j].s.paramid = trace[i].s.paramid
                /\ \A j \in Emitted(e) :
                      LET true == TrueWeight(e, trace[j].s.paramid)
                      IN  /\ RLessEq(true, trace[j].s.value)
                          /\ RLessEq(trace[j].s.value,
                                     RAdd(true, RMul(SpaceSaverError, N)))

(* C14. A Space-Saving flush (sentinel or complete) clears the counter map  *)
(* and the cumulative weight N, so the threshold N * portion of a flush    *)
(* counts only the weight received since the flush before it.              *)

C14_FlushClearsN ==
    LET last == CHOOSE e \in AtLevel(1) : \A x \in AtLevel(1) : x <= e
    IN  (AtLevel(1) # {} /\ room = Unlimited) =>
            (last \in Flushing =>
                /\ DOMAIN chain[1].counters_ = {}
                /\ chain[1].N = RInt(0))

(* C15. In every reachable state of a Space-Saving operator the counter    *)
(* map holds at most M = ceiling(1/error) entries, after any sequence of   *)
(* data samples, sentinels and rejected flushes.                           *)

C15_MapBounded ==
    \A m \in 1..Cardinality(feed.ids) :
        \* m = ceiling(1/error): m >= 1/error > m - 1
        (m * SpaceSaverError.n >= SpaceSaverError.d
            /\ (m - 1) * SpaceSaverError.n < SpaceSaverError.d) =>
                Cardinality(DOMAIN chain[1].counters_) <= m

\* the map is full and the bucket so far has had more series than it holds:
\* an entry was evicted
C15_Witness ==
    /\ Cardinality(DOMAIN chain[1].counters_) = chain[1].M
    /\ Cardinality({trace[j].s.paramid : j \in Since(Len(trace) + 1)}) > chain[1].M

(* C20. Space-Saving update on a data sample with paramid id and weight w: *)
(* if id is present its count grows by w; else if the map has fewer than M *)
(* entries {count: w, error: 0} is inserted; else an entry with the        *)
(* minimum count min_count is evicted and {count: min_count + w, error:    *)
(* min_count} is inserted, min_count being exactly the evicted count, also *)
(* when it is not an integer; in all three cases N grows by w and no other *)
(* entry changes.                                                          *)

C20_Update ==
    [][LET old == chain[1]
           s == trace'[Len(trace) + 1].s
           w == Weight(s)
           cnt == old.counters_
       IN  (/\ trace'[Len(trace) + 1].ev = "put"
            /\ ~IsEmpty(s)
            /\ (old.weighted => "FLOAT_BIT" \in s.type)) =>
               /\ chain'[1].N = RAdd(old.N, w)
               /\ IF s.paramid \in DOMAIN cnt
                  THEN chain'[1].counters_ = [cnt EXCEPT ![s.paramid].count = RAdd(@, w)]
                  ELSE IF Cardinality(DOMAIN cnt) < old.M
                  THEN chain'[1].counters_
                          = MapPut(cnt, s.paramid, [count |-> w, error |-> RInt(0)])
                  ELSE \E v \in DOMAIN cnt :
                          /\ \A x \in DOMAIN cnt : RLessEq(cnt[v].count, cnt[x].count)
                          /\ chain'[1].counters_
                                = MapPut([k \in DOMAIN cnt \ {v} |-> cnt[k]], s.paramid,
                                         [count |-> RAdd(cnt[v].count, w),
                                          error |-> cnt[v].count])]_vars

----------------------------------------------------------------------------
(* An anomaly detector alone in front of the sink, with threshold 1. The   *)
(* cursor sends float samples of two series with values -1 and 1, blobs,   *)
(* and the bucket sentinels.                                               *)

FeedAnomaly ==
    [FeedFlat EXCEPT !.vals = {RInt(-1), RInt(1)}, !.blobBits = {BlobBits},
                     !.maxOps = MaxAnomalyOps]

InitAnomaly == InitWith({FeedAnomaly}, {<<AnomalyDetector(RInt(1))>>}, Rooms)

SpecAnomaly == InitAnomaly /\ [][Next]_vars

\* the calls of the step: the producer's call and all it caused
Step == SubSeq(trace', Len(trace) + 1, Len(trace'))

\* the step is a put of sample s by the producer
Puts(s) == Len(Step) > 0 /\ Step[1].ev = "put" /\ Step[1].s = s

IsFloat(s) == "FLOAT_BIT" \in s.type

Call(lvl, ev, s, ret, status) ==
    [lvl |-> lvl, ev |-> ev, s |-> s, ret |-> ret, status |-> status]

(* C16. Anomaly detector: a put of a float sample with a negative value    *)
(* returns false, delivers set_error(EANOMALY_NEG_VAL) to the sink exactly *)
(* once, forwards no sample, and does not add the value to the detector.   *)

C16_NegativeValue ==
    [][\A s \in DataSamples :
          (Puts(s) /\ IsFloat(s) /\ RLess(s.value, RInt(0))) =>
              /\ Step = <<Call(0, "put", s, FALSE, ""),
                          Call(1, "put", s, FALSE, ""),
                          Call(2, "set_error", EMPTY_SAMPLE, TRUE, AKU_EANOMALY_NEG_VAL)>>
              /\ chain' = chain]_vars

\* a negative value was put behind a value the detector holds
C16_Witness ==
    /\ DOMAIN chain[1].detector_.frame # {}
    /\ \E e \in AtLevel(1) :
          /\ IsPut(e) /\ IsFloat(trace[e].s) /\ RLess(trace[e].s.value, RInt(0))
          /\ \E j \in Nested(e) : trace[j].lvl = SinkLevel /\ trace[j].ev = "set_error"

(* C17. Anomaly detector: a non-negative float sample is forwarded iff the *)
(* detector reports its series as a candidate after the value was added;   *)
(* the forwarded sample is the input with the URGENT flag set; a           *)
(* non-candidate sample and a blob are dropped with put returning true;    *)
(* the detector's window moves exactly once per empty sentinel, before the *)
(* sentinel is forwarded.                                                  *)

C17_Forwarding ==
    [][\A s \in DataSamples \cup Sentinels :
          LET d == chain[1].detector_
              urgent == [s EXCEPT !.type = @ \cup {"URGENT"}]
              forwarded == {j \in DOMAIN Step : Step[j].lvl = 2}
          IN  Puts(s) =>
                 CASE IsEmpty(s) ->
                        /\ chain'[1].detector_ = Detector_move_sliding_window(d)
                        /\ \E r \in BOOLEAN :
                              Step = <<Call(0, "put", s, r, ""), Call(1, "put", s, r, ""),
                                       Call(2, "put", s, r, "")>>
                   [] IsFloat(s) /\ ~RLess(s.value, RInt(0)) ->
                        /\ chain'[1].detector_ = Detector_add(d, s.paramid, s.value)
                        /\ IF Detector_is_anomaly_candidate(chain'[1].detector_, s.paramid)
                           THEN \E r \in BOOLEAN :
                                  Step = <<Call(0, "put", s, r, ""),
                                           Call(1, "put", s, r, ""),
                                           Call(2, "put", urgent, r, "")>>
                           ELSE Step = <<Call(0, "put", s, TRUE, ""),
                                         Call(1, "put", s, TRUE, "")>>
                   [] ~IsEmpty(s) /\ ~IsFloat(s) ->
                        /\ chain' = chain
                        /\ Step = <<Call(0, "put", s, TRUE, ""), Call(1, "put", s, TRUE, "")>>
                   [] OTHER -> TRUE]_vars

\* the detector has forwarded a candidate, dropped a sample that was none,
\* dropped a blob and moved its window for a sentinel
C17_Witness ==
    /\ chain[1].detector_.moves > 0
    /\ \E a, b, c \in AtLevel(1) :
          /\ IsPut(a) /\ IsFloat(trace[a].s) /\ Emitted(a) # {}
          /\ IsPut(b) /\ IsFloat(trace[b].s) /\ Emitted(b) = {} /\ trace[b].ret
          /\ IsPut(c) /\ "BLOB_BIT" \in trace[c].s.type /\ Emitted(c) = {}

----------------------------------------------------------------------------
(* MetadataQueryProcessor. feed.ids_ is the id list it was constructed     *)
(* with; root_ is the chain, a filter or the sink itself.                  *)

PARAMID_BIT == {"PARAMID_BIT"}

\* a slip that walks the list from its end
MetadataQueryProcessor_samples_reversed(ids, junk) ==
    [n \in DOMAIN ids |-> Sample(ids[Len(ids) + 1 - n], 0, PARAMID_BIT, RInt(junk))]

\* the samples start() builds, in list order: `aku_Sample s;` leaves the value
\* uninitialised
MetadataQueryProcessor_samples(ids, junk) ==
    [n \in DOMAIN ids |-> Sample(ids[n], 0, PARAMID_BIT, RInt(junk))]

\* r is the result of the puts into root_
MetadataStartDone(r, e) ==
    /\ chain' = r.w.chain
    /\ room' = r.w.room
    /\ trace' = Leave(r.w, e, r.ret).trace

MetadataQueryProcessor_start(junk, orc) ==
    MetadataStartDone(PutAll(Enter(World, 0, "start", EMPTY_SAMPLE, ""), 1,
                             MetadataQueryProcessor_samples(feed.ids_, junk), orc),
                      Len(trace) + 1)

\* no-op
MetadataQueryProcessor_put(s) ==
    Commit(Leave(Enter(World, 0, "put", s, ""), Len(trace) + 1, FALSE))

MetadataQueryProcessor_stop(orc) ==
    Commit(NodeComplete(Enter(World, 0, "complete", EMPTY_SAMPLE, ""), 1, orc))

MetadataQueryProcessor_set_error(status) ==
    Commit(NodeSetError(Enter(World, 0, "set_error", EMPTY_SAMPLE, status), 1, status))

MetadataStart ==
    /\ ~stopped
    /\ Ops < feed.maxOps
    /\ \E junk \in Junk : \E orc \in Oracles : MetadataQueryProcessor_start(junk, orc)
    /\ UNCHANGED <<groupby, stopped, clock, feed>>

MetadataPut ==
    /\ ~stopped
    /\ Ops < feed.maxOps
    /\ \E s \in DataSamples : MetadataQueryProcessor_put(s)
    /\ UNCHANGED <<groupby, stopped, clock, feed>>

MetadataStop ==
    /\ ~stopped
    /\ \E orc \in Oracles : MetadataQueryProcessor_stop(orc)
    /\ stopped' = TRUE
    /\ UNCHANGED <<groupby, clock, feed>>

MetadataSetError ==
    /\ ~stopped
    /\ Ops < feed.maxOps
    /\ \A j \in Calls : trace[j].ev # "set_error"
    /\ MetadataQueryProcessor_set_error(AKU_EIO)
    /\ UNCHANGED <<groupby, stopped, clock, feed>>

NextMetadata == MetadataStart \/ MetadataPut \/ MetadataStop \/ MetadataSetError

\* every list of at most n ids out of S
RECURSIVE Lists(_, _)
Lists(S, n) ==
    IF n = 0 THEN {<<>>}
    ELSE Lists(S, n - 1) \cup {Append(l, x) : l \in Lists(S, n - 1), x \in S}

FeedsMetadata ==
    {[ids_ |-> l, ids |-> {1, 2}, step |-> 0, gaps |-> {0}, sentinelGaps |-> {},
      vals |-> {RInt(1)}, blobBits |-> {}, maxOps |-> MaxMetadataOps,
      backward |-> FALSE, start |-> 0] : l \in Lists({1, 2, 3}, MaxIdListLen)}

InitMetadata ==
    InitWith(FeedsMetadata, {<<>>, <<FilterNode("make_filter_by_id_list", 0, {1, 3})>>},
             Rooms \cup {2})

SpecMetadata == InitMetadata /\ [][NextMetadata]_vars

IsStart(j) == trace[j].ev = "start"

(* C18. MetadataQueryProcessor::start puts one sample per configured id    *)
(* into the chain, in list order, each with timestamp 0 and payload type   *)
(* PARAMID_BIT; it returns true iff every put was accepted and puts        *)
(* nothing after the first rejected put; MetadataQueryProcessor::put       *)
(* always returns false and delivers nothing to the chain.                 *)

C18_MetadataStart ==
    /\ \A e \in AtLevel(0) :
          IsStart(e) =>
            LET out == InOrder(Emitted(e))
                accepted == {n \in DOMAIN out : trace[out[n]].ret}
            IN  /\ Len(out) <= Len(feed.ids_)
                /\ \A n \in DOMAIN out :
                      /\ trace[out[n]].s.paramid = feed.ids_[n]
                      /\ trace[out[n]].s.timestamp = 0
                      /\ trace[out[n]].s.type = {"PARAMID_BIT"}
                      /\ n < Len(out) => n \in accepted
                /\ Len(out) < Len(feed.ids_) => Len(out) \notin accepted
                /\ trace[e].ret <=> (Len(out) = Len(feed.ids_) /\ accepted = DOMAIN out)
    /\ \A e \in AtLevel(0) : IsPut(e) => (~trace[e].ret /\ Nested(e) = {})

\* a start whose second put was rejected although the list goes on, and a put
C18_Witness ==
    /\ \E e \in AtLevel(0) :
          /\ IsStart(e) /\ ~trace[e].ret
          /\ Cardinality(Emitted(e)) = 2 /\ Len(feed.ids_) > 2
          /\ feed.ids_[1] # feed.ids_[2]
    /\ \E e \in AtLevel(0) : IsPut(e)

----------------------------------------------------------------------------
(* A SpaceSaver with error 1/3, so M = 3, and portion 1/4, alone in front  *)
(* of the sink. The cursor sends samples of three series, with values 1/2, *)
(* 1 and 2 for heavy-hitters, and the bucket sentinels.                    *)

CountError == Rat(1, 3)
CountPortion == Rat(1, 4)

FeedCount ==
    [FeedFlat EXCEPT !.ids = {1, 2, 3}, !.vals = {Rat(1, 2), RInt(1), RInt(2)},
                     !.maxOps = MaxCountOps]

\* frequent-items does not read the values: one value is enough for it
InitCount ==
    \/ InitWith({FeedCount}, {<<SpaceSaver(TRUE, CountError, CountPortion)>>},
                {1, Unlimited})
    \/ InitWith({[FeedCount EXCEPT !.vals = {RInt(1)}]},
                {<<SpaceSaver(FALSE, CountError, CountPortion)>>}, {1, Unlimited})

SpecCount == InitCount /\ [][Next]_vars

\* the step makes node 1 flush: the producer's complete or sentinel
StepFlushes ==
    /\ Len(Step) > 1
    /\ Step[2].lvl = 1
    /\ Step[2].ev = "complete" \/ (Step[2].ev = "put" /\ IsEmpty(Step[2].s))

\* the puts node 1 made on its successor in the step
StepEmitted == {j \in DOMAIN Step : Step[j].lvl = 2 /\ Step[j].ev = "put"}

(* C21. Space-Saving flush: the samples put into the successor are entries *)
(* of the map with N * portion < count - error, one sample per entry, with *)
(* the entry's paramid and its count as value, in nonincreasing order of   *)
(* count; an entry at or below the threshold is never emitted; when the    *)
(* successor accepts every sample, exactly the entries above the threshold *)
(* are emitted, and when it rejects one, the flush stops there, with no    *)
(* entry left that has a larger count than an emitted one.                 *)

----------------------------------------------------------------------------
(* C22. A sliding-window operator ignores blob samples: a put of a         *)
(* non-empty sample without the float flag leaves the per-series state map *)
(* as it was, with no state created for the series, so that no value       *)
(* emitted at a later sentinel changes.                                    *)

C22_BlobIgnored ==
    [][\A s \in DataSamples :
          (Puts(s) /\ ~IsFloat(s)) =>
              /\ chain'[1].counters_ = chain[1].counters_
              /\ Step = <<Call(0, "put", s, TRUE, ""), Call(1, "put", s, TRUE, "")>>]_vars

----------------------------------------------------------------------------
(* C23. A sliding-window operator's complete only forwards complete to its *)
(* successor: it puts no synthetic sample and no sentinel and leaves the   *)
(* states as they are; the operator puts into its successor only while it  *)
(* handles a sentinel, so data samples received after the last sentinel    *)
(* never produce output.                                                   *)

C23_CompleteForwards ==
    [][/\ (Len(Step) > 0 /\ Step[1].ev = "complete") =>
              /\ Step = <<Call(0, "complete", EMPTY_SAMPLE, TRUE, ""),
                          Call(1, "complete", EMPTY_SAMPLE, TRUE, ""),
                          Call(2, "complete", EMPTY_SAMPLE, TRUE, "")>>
              /\ chain' = chain
       /\ (\E j \in DOMAIN Step : Step[j].lvl = 2 /\ Step[j].ev = "put") =>
              Step[1].ev = "put" /\ IsEmpty(Step[1].s)]_vars

\* the stream was completed while a series had data behind the last
\* sentinel, after a sentinel that made the window emit
C23_Witness ==
    /\ stopped
    /\ trace[Len(trace)] = Call(2, "complete", EMPTY_SAMPLE, TRUE, "")
    /\ \E k \in DOMAIN chain[1].counters_ : State_ready(chain[1].kind, chain[1].counters_[k])
    /\ \E e \in Flushes : Synthetics(e) # {}

----------------------------------------------------------------------------
\* the sentinels among the puts that call e made on its successor
Forwarded(e) == {j \in Children(e) : IsPut(j) /\ IsEmpty(trace[j].s)}

(* C24. Filter, sliding-window, Space-Saving and anomaly-detector          *)
(* operators: every empty sentinel received by put is forwarded to the     *)
(* successor exactly once, behind every sample the operator emits for that *)
(* flush and within the put that received it, so before any output of a    *)
(* later input (a put that the successor rejected ends the flush and may   *)
(* leave the sentinel out).                                                *)

C24_SentinelForwarded ==
    \A e \in DOMAIN trace :
        (/\ trace[e].lvl \in DOMAIN chain
         /\ chain[trace[e].lvl].kind # "RandomSampler"
         /\ IsPut(e) /\ IsEmpty(trace[e].s)) =>
            /\ Cardinality(Forwarded(e)) <= 1
            /\ \A j \in Forwarded(e) : \A c \in Children(e) : c <= j
            /\ trace[e].ret => Cardinality(Forwarded(e)) = 1

----------------------------------------------------------------------------
(* C25. Once the put of an operator's successor has returned false to the  *)
(* operator, and the producer follows the protocol (no further put, then   *)
(* one complete), the operator makes no further put on that successor: a   *)
(* node that signalled full/closed receives only complete or set_error     *)
(* afterwards, and no sample a second time.                                *)

C25_NoPutAfterFalse ==
    \A lvl \in 2..SinkLevel :
        \A j, k \in AtLevel(lvl) :
            (j < k /\ IsPut(j) /\ ~trace[j].ret) => ~IsPut(k)

====
